---- MODULE Spec2Model ----
(***************************************************************************)
(* prh-languageserver: the document validation cache and command dispatch  *)
(* of the two Handler variants.                                            *)
(*                                                                         *)
(*   - the multi-path Handler (enable / configPaths / state / engineCache  *)
(*     / validationCache), specification Spec;                             *)
(*   - the single-path Handler of src/lib/index.ts (engine / enable /      *)
(*     configPath / workspaceRoot / validationCache), specification        *)
(*     SpecLib.                                                            *)
(*                                                                         *)
(* Strings whose characters matter (rule paths, engineCache keys, uri      *)
(* paths, document text) are sequences of one-character strings, so that   *)
(* join("|"), split("|"), endsWith, offsetAt and positionAt are computed   *)
(* and not assumed.                                                        *)
(***************************************************************************)
EXTENDS Integers, Sequences, FiniteSets, TLC

\* ------------------------------------------------------------------ bounds

\* Highest document version the client sends.
MaxVersion == 2

\* Highest number of applyEdit requests awaiting the host's answer.
MaxPending == 1

\* The count of engine invocations is kept up to this number.
MaxRuns == 2

\* ------------------------------------------------------- JavaScript values

\* An object with no key.
EmptyMap == [k \in {} |-> <<>>]

\* A value that may be undefined or null: None, or Some(v).
None == <<>>
Some(v) == <<v>>
IsSome(m) == m # <<>>
Val(m) == m[1]

\* ------------------------------------------------------------- the strings

RECURSIVE Join(_, _)
\* Array.prototype.join: the elements with sep between them.
Join(strs, sep) ==
    IF Len(strs) = 0 THEN <<>>
    ELSE IF Len(strs) = 1 THEN strs[1]
    ELSE strs[1] \o <<sep>> \o Join(Tail(strs), sep)

RECURSIVE SplitFrom(_, _, _, _)
SplitFrom(str, sep, i, cur) ==
    IF i > Len(str) THEN <<cur>>
    ELSE IF str[i] = sep THEN <<cur>> \o SplitFrom(str, sep, i + 1, <<>>)
    ELSE SplitFrom(str, sep, i + 1, Append(cur, str[i]))

\* String.prototype.split on a one-character separator.
Split(str, sep) == SplitFrom(str, sep, 1, <<>>)

\* String.prototype.endsWith.
EndsWith(str, suffix) ==
    /\ Len(suffix) <= Len(str)
    /\ SubSeq(str, Len(str) - Len(suffix) + 1, Len(str)) = suffix

SeqToSet(s) == {s[i] : i \in DOMAIN s}

\* The orders in which documents.all() can list the documents of S.
Orders(S) ==
    {o \in [1..Cardinality(S) -> S] : \A i, j \in DOMAIN o : i # j => o[i] # o[j]}

\* ------------------------------------------------- the files and the uris

\* Rule files. RulesYml, ExtraYml and GoneYml are named by the configuration
\* (paths relative to the working directory); PrhYml is the prh.yml that
\* getRuleFilePath finds above the documents of /w. RulesYml and PrhYml come
\* and go; ExtraYml is always there and GoneYml never is.
RulesYml == <<"r">>
ExtraYml == <<"s">>
GoneYml == <<"g">>
PrhYml == <<"/", "w", "/", "p">>

\* The working directory of the server, and path.resolve against it.
Cwd == <<"/", "w">>
Resolve(dir, path) == IF Len(path) > 0 /\ path[1] = "/" THEN path ELSE dir \o <<"/">> \o path
Files == {Resolve(Cwd, RulesYml), PrhYml}

\* What a rule file can be: absent, a rule file, or text that does not parse.
FileStates(f) == IF f = Resolve(Cwd, RulesYml) THEN {"missing", "ok", "bad"} ELSE {"missing", "ok"}

\* The state of a rule file on disk.
FileState(files, path) ==
    IF Resolve(Cwd, path) \in DOMAIN files THEN files[Resolve(Cwd, path)]
    ELSE IF path = ExtraYml THEN "ok" ELSE "missing"

\* The documents' uris.
FileDoc == "file:///w/a"
UntitledDoc == "untitled:b"
Uris == {FileDoc, UntitledDoc}

\* The uris a watched-files notification can name, and the notifications.
WatchedUris == {"file:///w/r", "file:///w/xr", "file:///w/p", "file:///w/n"}
WatchedInputs == {{"file:///w/r"}, {"file:///w/p"}, {"file:///w/n"},
                  {"file:///w/n", "file:///w/xr"}}

\* Uri.parse: scheme and path.
UriParse(uri) ==
    CASE uri = FileDoc -> [scheme |-> "file", path |-> <<"/", "w", "/", "a">>]
      [] uri = UntitledDoc -> [scheme |-> "untitled", path |-> <<"b">>]
      [] uri = "file:///w/r" -> [scheme |-> "file", path |-> <<"/", "w", "/", "r">>]
      [] uri = "file:///w/xr" -> [scheme |-> "file", path |-> <<"/", "w", "/", "x", "r">>]
      [] uri = "file:///w/p" -> [scheme |-> "file", path |-> <<"/", "w", "/", "p">>]
      [] uri = "file:///w/n" -> [scheme |-> "file", path |-> <<"/", "w", "/", "n">>]
      [] uri = "file:///w" -> [scheme |-> "file", path |-> <<"/", "w">>]

\* fs.existsSync.
ExistsSync(files, path) == FileState(files, path) # "missing"

\* prh's getRuleFilePath: the first prh.yml found going up from the document.
GetRuleFilePath(files, path) ==
    IF EndsWith(path, <<"/", "a">>) /\ ExistsSync(files, SubSeq(path, 1, Len(path) - 1) \o <<"p">>)
    THEN Some(SubSeq(path, 1, Len(path) - 1) \o <<"p">>)
    ELSE None

\* ------------------------------------------------ the documents' text

\* The texts a document can hold ("\n" ends a line).
Texts == { <<"a", "\n", "b">>, <<"b">> }

\* TextDocument.getLineOffsets: the offset at which each line starts.
LineOffsets(text) ==
    LET starts == {0} \cup {i \in 1..Len(text) : text[i] = "\n"}
        RECURSIVE Sorted(_)
        Sorted(S) ==
            IF S = {} THEN <<>>
            ELSE LET m == CHOOSE x \in S : \A y \in S : x <= y
                 IN <<m>> \o Sorted(S \ {m})
    IN Sorted(starts)

Min(a, b) == IF a <= b THEN a ELSE b
Max(a, b) == IF a >= b THEN a ELSE b

\* TextDocument.positionAt: the offset is clamped to the text, the line is the
\* last one starting at or before it.
positionAt(text, offset) ==
    LET off == Max(Min(offset, Len(text)), 0)
        lo == LineOffsets(text)
        ln == CHOOSE i \in DOMAIN lo :
                  /\ lo[i] <= off
                  /\ \A j \in DOMAIN lo : lo[j] <= off => j <= i
    IN [line |-> ln - 1, character |-> off - lo[ln]]

\* TextDocument.offsetAt: a position past the last line is the end of the
\* text, a character past the end of its line is the start of the next line.
offsetAt(text, position) ==
    LET lo == LineOffsets(text)
    IN IF position.line >= Len(lo) THEN Len(text)
       ELSE IF position.line < 0 THEN 0
       ELSE LET lineOffset == lo[position.line + 1]
                nextLineOffset ==
                    IF position.line + 1 < Len(lo) THEN lo[position.line + 2] ELSE Len(text)
            IN Max(Min(lineOffset + position.character, nextLineOffset), lineOffset)

\* The positions a request can name.
Pos(l, c) == [line |-> l, character |-> c]
EmptyRange == [start |-> Pos(0, 0), end |-> Pos(0, 0)]
Ranges == {[start |-> Pos(0, 0), end |-> Pos(0, 0)],
           [start |-> Pos(0, 0), end |-> Pos(0, 1)],
           [start |-> Pos(1, 0), end |-> Pos(1, 1)],
           [start |-> Pos(0, 0), end |-> Pos(1, 1)]}

\* --------------------------------------------------- the rule engine (prh)

\* The rules of a rule file: an expected text for a character; ExtraYml's rule
\* has no expected text (the diff's newText is empty).
RulesOf(path) ==
    CASE Resolve(Cwd, path) = Resolve(Cwd, RulesYml) -> {[pattern |-> "a", newText |-> "A"]}
      [] Resolve(Cwd, path) = Resolve(Cwd, ExtraYml) -> {[pattern |-> "b", newText |-> ""]}
      [] Resolve(Cwd, path) = PrhYml -> {[pattern |-> "a", newText |-> "P"]}
      [] OTHER -> {}

\* What fromYAMLFilePaths(...paths) does: the engine of the rules of every
\* path, or a throw when a file is absent (an Error) or does not parse (the
\* value thrown, an Error or not, is the parser's).
CanBuild(files, paths) == \A i \in DOMAIN paths : FileState(files, paths[i]) = "ok"
MustThrowError(files, paths) == \E i \in DOMAIN paths : ~ExistsSync(files, paths[i])
fromYAMLFilePaths(paths) == [src |-> paths, rules |-> UNION {RulesOf(paths[i]) : i \in DOMAIN paths}]

RECURSIVE DiffsFrom(_, _, _)
DiffsFrom(rules, text, i) ==
    IF i > Len(text) THEN <<>>
    ELSE LET hit == {r \in rules : r.pattern = text[i]}
         IN (IF hit = {} THEN <<>>
             ELSE <<[index |-> i - 1, tailIndex |-> i, matched |-> text[i],
                     newText |-> (CHOOSE r \in hit : TRUE).newText]>>)
            \o DiffsFrom(rules, text, i + 1)

\* Engine.makeChangeSet: the diffs of the text, one per match, by index.
EngineMakeChangeSet(engine, text) == [diffs |-> DiffsFrom(engine.rules, text, 1)]

\* diff.newText || "??"
NewTextOr(diff) == IF diff.newText = "" THEN "??" ELSE diff.newText

\* ---------------------------------------------------------------- state

VARIABLES
    documents,        \* TextDocuments: uri -> None (not open) or Some([version, text])
    clientVersion,    \* the client's last version of each uri (0: never opened)
    files,            \* the rule files on disk
    initialized,      \* the initialize request has been answered
    enable,           \* Handler.enable (None: not yet assigned)
    configPaths,      \* Handler.configPaths (None: not yet assigned)
    state,            \* Handler.state
    engineCache,      \* Handler.engineCache: key -> None (undefined) or Some(engine)
    validationCache,  \* Handler.validationCache: uri -> [version, changeSet, text]
    missingAtCheck,   \* the path the last checkConfig run found missing, if any
    engineRuns,       \* engine invocations per uri at its version, since the caches were last cleared
    published,        \* the client's view: the last diagnostics published per uri
    pendingEdits,     \* the number of applyEdit requests the host has not answered
    offered,          \* the uri and version stamped on the commands of the last
                      \* code-action response whose commands the client kept
    last,             \* the last event handled and what it did
    libEngine,        \* lib Handler.engine (None: not assigned)
    libEnable,        \* lib Handler.enable
    libConfigPath,    \* lib Handler.configPath
    workspaceRoot,    \* lib Handler.workspaceRoot
    libValidationCache \* lib Handler.validationCache: uri -> None (null) or Some(entry)

envVars == <<documents, clientVersion, files, initialized, published, pendingEdits, offered, last>>
handlerVars == <<enable, configPaths, state, engineCache, validationCache, missingAtCheck, engineRuns>>
libVars == <<libEngine, libEnable, libConfigPath, workspaceRoot, libValidationCache>>
vars == <<envVars, handlerVars, libVars>>

\* The Handler's fields as one value.
Self == [enable |-> enable, configPaths |-> configPaths, state |-> state,
         engineCache |-> engineCache, validationCache |-> validationCache,
         missingAtCheck |-> missingAtCheck]

\* What an event has done so far: the handler's fields and what it sent.
\* pushes: per uri, the diagnostics lists published, in order; invoked: per
\* uri, the number of engine.makeChangeSet calls; nulls: the uris whose
\* validation returned null; versions: per uri, the version of the validation
\* result whose diagnostics were published (0: none); built: the engineCache
\* keys of the engines constructed, in order.
NoPushes == [u \in Uris |-> <<>>]
NoRuns == [u \in Uris |-> 0]
Begin(h) == [h |-> h, pushes |-> NoPushes, warnings |-> <<>>, errors |-> <<>>,
             built |-> <<>>, invoked |-> NoRuns, nulls |-> {}, versions |-> NoRuns,
             threw |-> FALSE]

OpenDocs == {u \in Uris : IsSome(documents[u])}

\* ------------------------------------------------- the multi-path Handler

\* An invalidation that drops the engines and keeps the results.
invalidateCacheEnginesOnly(h) == [h EXCEPT !.engineCache = EmptyMap]

\* Handler.invalidateCache
invalidateCache(h) == [h EXCEPT !.engineCache = EmptyMap, !.validationCache = EmptyMap]

\* Handler.clearDiagnostics for every document of documents.all()
clearAll(pushes, order) ==
    [u \in Uris |-> IF u \in SeqToSet(order) THEN Append(pushes[u], <<>>) ELSE pushes[u]]

\* An existence test that finds every path.
MissingPathsNone(fs, paths) == {}

\* The existence test of Handler.checkConfig: the places of the paths that
\* fs.existsSync does not find.
MissingPaths(fs, paths) == {i \in DOMAIN paths : ~ExistsSync(fs, paths[i])}

\* A missing path that is logged and never shown.
WarnedNever(was, warnings, path) == warnings

\* A warning for every missing path found.
WarnedAlways(was, warnings, path) == Append(warnings, path)

\* The warning of Handler.checkConfig: shown unless the state is already
\* invalid.
Warned(was, warnings, path) == IF was # "invalid" THEN Append(warnings, path) ELSE warnings

\* Handler.checkConfig
checkConfig(r, fs, order) ==
    LET paths == IF IsSome(r.h.configPaths) THEN Val(r.h.configPaths) ELSE <<>>
        h1 == invalidateCache([r.h EXCEPT !.configPaths = Some(paths)])
        missing == MissingPaths(fs, paths)
    IN IF missing # {}
       THEN LET i == CHOOSE x \in missing : \A y \in missing : x <= y
            IN [r EXCEPT !.h = [h1 EXCEPT !.state = "invalid", !.missingAtCheck = Some(paths[i])],
                         !.warnings = Warned(r.h.state, @, paths[i]),
                         !.pushes = clearAll(@, order)]
       ELSE [r EXCEPT !.h = [h1 EXCEPT !.state = "valid", !.missingAtCheck = None]]

\* The key of engineCache: configPaths.join("|")
EngineKey(paths) == Join(paths, "|")

\* A first test that looks at the state only.
UnavailableWhenInvalid(h) == h.state = "invalid"

\* A first test that looks at the enablement only.
UnavailableWhenDisabled(h) == h.enable # Some(TRUE)

\* The first test of Handler.makeChangeSet: corrections are off or the
\* configuration is invalid.
Unavailable(h) == h.enable # Some(TRUE) \/ h.state = "invalid"

\* An entry whose version runs against the document's.
CacheEntryCountingDown(doc, changeSet, engine) ==
    [version |-> MaxVersion + 1 - doc.version, changeSet |-> changeSet, text |-> doc.text,
     engine |-> engine.src]

\* The entry Handler.makeChangeSet stores; text and engine record what the
\* change set was computed from.
CacheEntry(doc, changeSet, engine) ==
    [version |-> doc.version, changeSet |-> changeSet, text |-> doc.text, engine |-> engine.src]

\* A cache test that never hits.
CacheHitNever(h, uri, doc) == FALSE

\* A cache test that takes an entry of any version.
CacheHitAnyVersion(h, uri, doc) == uri \in DOMAIN h.validationCache

\* The cache test of Handler.makeChangeSet: an entry of the document's version.
CacheHit(h, uri, doc) ==
    uri \in DOMAIN h.validationCache /\ h.validationCache[uri].version = doc.version

\* What Handler.makeChangeSet has done: the fields afterwards, the change set
\* or None (null), the errors shown, the engines built, whether the engine
\* was invoked and whether the call threw.
Returned(h, result, errors, built, invoked, threw) ==
    [h |-> h, result |-> result, errors |-> errors, built |-> built,
     invoked |-> invoked, threw |-> threw]

\* delete this.validationCache[textDocument.uri]
Forget(h, uri) ==
    [h EXCEPT !.validationCache = [u \in (DOMAIN @) \ {uri} |-> @[u]]]

\* A lookup that falls back on the prh.yml of the working directory.
FoundPathsDefault(foundPath) ==
    IF IsSome(foundPath) THEN Some(<<Val(foundPath)>>) ELSE Some(<<PrhYml>>)

\* The rule paths Handler.makeChangeSet validates with: the configured ones,
\* or the rule file found from the document's directory; None if there is
\* none.
FoundPaths(foundPath) == IF IsSome(foundPath) THEN Some(<<Val(foundPath)>>) ELSE None
RulePaths(h, fs, uri) ==
    IF IsSome(h.configPaths) /\ Len(Val(h.configPaths)) > 0 /\ Val(h.configPaths)[1] # <<>>
    THEN h.configPaths
    ELSE IF UriParse(uri).scheme # "file" THEN None
    ELSE FoundPaths(GetRuleFilePath(fs, UriParse(uri).path))

\* this.engineCache[configPaths.join("|")] = engine
StoreEngine(h, key, engine) ==
    [h EXCEPT !.engineCache = [k \in (DOMAIN @) \cup {key} |-> IF k = key THEN engine ELSE @[k]]]

\* The end of Handler.makeChangeSet: the change set is stored and returned.
StoreResult(h, uri, doc, changeSet, engine, built) ==
    Returned([h EXCEPT !.validationCache =
                 [u \in (DOMAIN @) \cup {uri} |->
                     IF u = uri THEN CacheEntry(doc, changeSet, engine) ELSE @[u]]],
             Some(changeSet), <<>>, built, TRUE, FALSE)

\* engine.makeChangeSet(textDocument.uri, textDocument.getText()) and the rest.
InvokeEngine(h, uri, doc, engine, built) ==
    StoreResult(h, uri, doc, EngineMakeChangeSet(engine, doc.text), engine, built)

\* A failed construction that leaves an engine without rules under the key.
FailedBuildCached(h, paths) ==
    Returned(StoreEngine(h, EngineKey(paths), Some([src |-> paths, rules |-> {}])),
             None, <<paths>>, <<>>, FALSE, FALSE)

\* The catch block of Handler.makeChangeSet for an Error: the message is
\* shown with the paths and null returned; nothing is stored.
FailedBuild(h, paths) == Returned(h, None, <<paths>>, <<>>, FALSE, FALSE)

\* A lookup that finds no engine.
EngineCachedNever(h, key) == FALSE

\* The lookup of Handler.makeChangeSet: this.engineCache[key] is an engine
\* (a key holding undefined counts as none).
EngineCached(h, key) == key \in DOMAIN h.engineCache /\ IsSome(h.engineCache[key])

\* The engine of the paths, cached or built, in Handler.makeChangeSet; thrown
\* is what the rule parser throws if the files leave it open. An Error is
\* shown and null returned; anything else leaves undefined in the cache, and
\* the call on it throws.
WithEngine(h, fs, uri, doc, paths, thrown) ==
    IF EngineCached(h, EngineKey(paths))
    THEN InvokeEngine(h, uri, doc, Val(h.engineCache[EngineKey(paths)]), <<>>)
    ELSE IF CanBuild(fs, paths)
    THEN InvokeEngine(StoreEngine(h, EngineKey(paths), Some(fromYAMLFilePaths(paths))),
                      uri, doc, fromYAMLFilePaths(paths), <<EngineKey(paths)>>)
    ELSE IF MustThrowError(fs, paths) \/ thrown = "Error"
    THEN FailedBuild(h, paths)
    ELSE Returned(StoreEngine(h, EngineKey(paths), None), None, <<>>, <<>>, FALSE, TRUE)

\* Handler.makeChangeSet after the stale entry is deleted.
WithPaths(h, fs, uri, doc, paths, thrown) ==
    IF ~IsSome(paths) THEN Returned(h, None, <<>>, <<>>, FALSE, FALSE)
    ELSE WithEngine(h, fs, uri, doc, Val(paths), thrown)

\* Handler.makeChangeSet on documents.get(uri): a call on a document that is
\* not open throws once the first test is passed.
makeChangeSet(h, fs, uri, doc, thrown) ==
    IF Unavailable(h) THEN Returned(h, None, <<>>, <<>>, FALSE, FALSE)
    ELSE IF ~IsSome(doc) THEN Returned(h, None, <<>>, <<>>, FALSE, TRUE)
    ELSE IF CacheHit(h, uri, Val(doc))
    THEN Returned(h, Some(h.validationCache[uri].changeSet), <<>>, <<>>, FALSE, FALSE)
    ELSE WithPaths(Forget(h, uri), fs, uri, Val(doc), RulePaths(h, fs, uri), thrown)

\* Handler.makeDiagnostic: the diagnostics of a change set.
DiagnosticsOf(changeSet, text) ==
    [k \in DOMAIN changeSet.diffs |->
        [range |-> [start |-> positionAt(text, changeSet.diffs[k].index),
                    end |-> positionAt(text, changeSet.diffs[k].tailIndex)],
         message |-> NewTextOr(changeSet.diffs[k])]]

\* A validation whose diagnostics are not sent.
NotPushed(r, uri, doc, m) ==
    [r EXCEPT !.h = m.h, !.errors = r.errors \o m.errors, !.built = r.built \o m.built,
              !.threw = m.threw]

\* connection.sendDiagnostics({uri, diagnostics: diagnostics || []}) with the
\* outcome m of makeChangeSet, recorded in the event.
Pushed(r, uri, doc, m) ==
    [h |-> m.h,
     pushes |-> IF m.threw THEN r.pushes
                ELSE [r.pushes EXCEPT ![uri] =
                         Append(@, IF IsSome(m.result)
                                   THEN DiagnosticsOf(Val(m.result), Val(doc).text)
                                   ELSE <<>>)],
     warnings |-> r.warnings,
     errors |-> r.errors \o m.errors,
     built |-> r.built \o m.built,
     invoked |-> IF m.invoked THEN [r.invoked EXCEPT ![uri] = @ + 1] ELSE r.invoked,
     nulls |-> IF ~m.threw /\ ~IsSome(m.result) THEN r.nulls \cup {uri} ELSE r.nulls,
     versions |-> IF IsSome(m.result)
                  THEN [r.versions EXCEPT ![uri] = m.h.validationCache[uri].version]
                  ELSE r.versions,
     threw |-> m.threw]

\* Handler.validateAndSendDiagnostics as a step of an event.
validateAndSendDiagnostics(r, fs, docs, uri, thrown) ==
    IF r.threw THEN r
    ELSE Pushed(r, uri, docs[uri], makeChangeSet(r.h, fs, uri, docs[uri], thrown))

RECURSIVE validateEach(_, _, _, _, _)
\* this.documents.all().forEach(document => this.validateAndSendDiagnostics(document))
validateEach(r, fs, docs, order, thrown) ==
    IF Len(order) = 0 THEN r
    ELSE validateEach(validateAndSendDiagnostics(r, fs, docs, order[1], thrown),
                      fs, docs, Tail(order), thrown)

\* ------------------------------------------------------------ the events

\* The client's view after the pushes of an event.
Publish(pub, pushes) ==
    [u \in Uris |-> IF Len(pushes[u]) > 0 THEN Some(pushes[u][Len(pushes[u])]) ELSE pub[u]]

\* What is recorded of an event.
Event(kind, uri, input, r, result, commands, applied, mismatch) ==
    [kind |-> kind, uri |-> uri, input |-> input, threw |-> r.threw, result |-> result,
     nulls |-> r.nulls, versions |-> r.versions,
     commands |-> commands, pushes |-> r.pushes, warnings |-> r.warnings,
     errors |-> r.errors, built |-> r.built, invoked |-> r.invoked,
     applied |-> applied, mismatch |-> mismatch]

\* The handler's fields and the client's view after an event; runs is the
\* count of engine invocations the event starts from.
Commit(r, runs) ==
    /\ enable' = r.h.enable
    /\ configPaths' = r.h.configPaths
    /\ state' = r.h.state
    /\ engineCache' = r.h.engineCache
    /\ validationCache' = r.h.validationCache
    /\ missingAtCheck' = r.h.missingAtCheck
    /\ engineRuns' = [u \in Uris |-> Min(runs[u] + r.invoked[u], MaxRuns)]
    /\ published' = Publish(published, r.pushes)

\* An event that validated and pushed: the fields, the client's view and the
\* record of the event.
Handled(kind, uri, input, r, runs) ==
    /\ Commit(r, runs)
    /\ last' = Event(kind, uri, input, r, None, <<>>, None, FALSE)

\* No event is being answered.
Idle == [kind |-> "none", uri |-> "", input |-> None, threw |-> FALSE, result |-> None,
         nulls |-> {}, versions |-> NoRuns,
         commands |-> <<>>, pushes |-> NoPushes, warnings |-> <<>>, errors |-> <<>>,
         built |-> <<>>, invoked |-> NoRuns, applied |-> None, mismatch |-> FALSE]
Waiting == last = Idle

Thrown == IF \E p \in Files : files[p] = "bad" THEN {"Error", "other"} ELSE {"Error"}

\* The initialize request (Handler.onInitialized): the capabilities, no state.
Initialize ==
    /\ ~initialized
    /\ initialized' = TRUE
    /\ UNCHANGED <<documents, clientVersion, files, published, pendingEdits, offered, last,
                   handlerVars, libVars>>

\* textDocument/didOpen: TextDocuments stores the document and fires
\* onDidChangeContent (Handler.onDidChangeContent).
DidOpen(uri, version, text, thrown) ==
    /\ initialized /\ Waiting
    /\ ~IsSome(documents[uri])
    /\ version >= clientVersion[uri]
    /\ documents' = [documents EXCEPT ![uri] = Some([version |-> version, text |-> text])]
    /\ clientVersion' = [clientVersion EXCEPT ![uri] = version]
    /\ Handled("didOpen", uri, None,
               validateAndSendDiagnostics(
                   Begin(Self), files,
                   [documents EXCEPT ![uri] = Some([version |-> version, text |-> text])],
                   uri, thrown),
               IF version = clientVersion[uri] THEN engineRuns
               ELSE [engineRuns EXCEPT ![uri] = 0])
    /\ UNCHANGED <<files, initialized, pendingEdits, offered, libVars>>

\* textDocument/didChange: the next version and the full text, then
\* onDidChangeContent.
DidChange(uri, text, thrown) ==
    /\ initialized /\ Waiting
    /\ IsSome(documents[uri])
    /\ Val(documents[uri]).version < MaxVersion
    /\ documents' = [documents EXCEPT
                        ![uri] = Some([version |-> Val(@).version + 1, text |-> text])]
    /\ clientVersion' = [clientVersion EXCEPT ![uri] = Val(documents[uri]).version + 1]
    /\ Handled("didChange", uri, None,
               validateAndSendDiagnostics(
                   Begin(Self), files,
                   [documents EXCEPT
                       ![uri] = Some([version |-> Val(@).version + 1, text |-> text])],
                   uri, thrown),
               [engineRuns EXCEPT ![uri] = 0])
    /\ UNCHANGED <<files, initialized, pendingEdits, offered, libVars>>

\* textDocument/didClose: TextDocuments forgets the document; neither Handler
\* listens to it.
DidClose(uri) ==
    /\ initialized /\ Waiting
    /\ IsSome(documents[uri])
    /\ documents' = [documents EXCEPT ![uri] = None]
    /\ UNCHANGED <<clientVersion, files, initialized, published, pendingEdits, offered, last,
                   handlerVars, libVars>>

\* A rule file is written or removed on disk.
FileChange(path, to) ==
    /\ Waiting
    /\ files[path] # to
    /\ files' = [files EXCEPT ![path] = to]
    /\ UNCHANGED <<documents, clientVersion, initialized, published, pendingEdits, offered,
                   last, handlerVars, libVars>>

\* The settings a configuration change can carry.
EnableInputs == {Some(TRUE), Some(FALSE)}
ConfigFilesInputs == {None, Some(<<RulesYml>>), Some(<<RulesYml, ExtraYml>>), Some(<<GoneYml>>)}

\* this.enable = !!settings.prh.enable; this.configPaths = settings.prh.configFiles || []
Configured(h, settingsEnable, configFiles) ==
    [h EXCEPT !.enable = Some(settingsEnable = Some(TRUE)),
              !.configPaths = IF IsSome(configFiles) THEN configFiles ELSE Some(<<>>)]

\* Handler.onDidChangeConfiguration
onDidChangeConfiguration(settingsEnable, configFiles, order, thrown) ==
    /\ initialized /\ Waiting
    /\ Handled("didChangeConfiguration", "",
               Some([enable |-> settingsEnable, configFiles |-> configFiles]),
               validateEach(checkConfig(Begin(Configured(Self, settingsEnable, configFiles)),
                                        files, order),
                            files, documents, order, thrown),
               NoRuns)
    /\ UNCHANGED <<documents, clientVersion, files, initialized, pendingEdits, offered, libVars>>

\* A test that every notification passes.
ConfigChangedAlways(h, changes) == TRUE

\* A test that no watched file passes.
ConfigChangedNever(h, changes) == FALSE

\* The test of Handler.onDidChangeWatchedFiles: some changed uri's path ends
\* with some rule path of some key of engineCache.
ConfigChanged(h, changes) ==
    \E uri \in changes : \E key \in DOMAIN h.engineCache :
        LET rulePaths == Split(key, "|")
        IN \E i \in DOMAIN rulePaths : EndsWith(UriParse(uri).path, rulePaths[i])

\* Handler.onDidChangeWatchedFiles
onDidChangeWatchedFiles(changes, order, thrown) ==
    /\ initialized /\ Waiting
    /\ IF ConfigChanged(Self, changes)
       THEN Handled("didChangeWatchedFiles", "", Some(changes),
                    validateEach(checkConfig(Begin(Self), files, order), files, documents,
                                 order, thrown),
                    NoRuns)
       ELSE Handled("didChangeWatchedFiles", "", Some(changes), Begin(Self), engineRuns)
    /\ UNCHANGED <<documents, clientVersion, files, initialized, pendingEdits, offered, libVars>>

\* Commands for every diff that the requested range touches.
CommandsOfOverlapping(changeSet, uri, doc, range) ==
    LET index == offsetAt(doc.text, range.start)
        tailIndex == offsetAt(doc.text, range.end)
        Touches(diff) == diff.index < tailIndex /\ index < diff.tailIndex
        hits == SelectSeq(changeSet.diffs, Touches)
    IN [k \in DOMAIN hits |->
           [uri |-> uri, version |-> doc.version,
            textEdit |-> [range |-> range, newText |-> NewTextOr(hits[k])]]]

\* The replace commands of Handler.onCodeAction: one per diff whose span is
\* the requested range.
CommandsOf(changeSet, uri, doc, range) ==
    LET index == offsetAt(doc.text, range.start)
        tailIndex == offsetAt(doc.text, range.end)
        Exact(diff) == diff.index = index /\ diff.tailIndex = tailIndex
        hits == SelectSeq(changeSet.diffs, Exact)
    IN [k \in DOMAIN hits |->
           [uri |-> uri, version |-> doc.version,
            textEdit |-> [range |-> range, newText |-> NewTextOr(hits[k])]]]

\* What a request that called makeChangeSet once, with outcome m, did.
Requested(m, uri) ==
    [Begin(m.h) EXCEPT !.errors = m.errors, !.built = m.built,
                       !.invoked = IF m.invoked THEN [NoRuns EXCEPT ![uri] = 1] ELSE NoRuns,
                       !.nulls = IF ~m.threw /\ ~IsSome(m.result) THEN {uri} ELSE {},
                       !.threw = m.threw]

\* The commands Handler.onCodeAction returns given makeChangeSet's outcome m.
CodeActions(m, uri, doc, range) ==
    IF IsSome(m.result) THEN CommandsOf(Val(m.result), uri, Val(doc), range) ELSE <<>>

\* The answer of Handler.onCodeAction; keep: the client keeps the commands.
CodeActionAnswer(uri, range, keep, doc, m, commands) ==
    /\ Commit(Requested(m, uri), engineRuns)
    /\ offered' = IF keep /\ Len(commands) > 0
                  THEN Some([uri |-> uri, version |-> Val(doc).version])
                  ELSE offered
    /\ last' = Event("codeAction", uri, Some(range), Requested(m, uri), m.result, commands,
                     None, FALSE)

\* Handler.onCodeAction
onCodeAction(uri, range, thrown, keep) ==
    /\ initialized /\ Waiting
    /\ CodeActionAnswer(uri, range, keep, documents[uri],
                        makeChangeSet(Self, files, uri, documents[uri], thrown),
                        CodeActions(makeChangeSet(Self, files, uri, documents[uri], thrown),
                                    uri, documents[uri], range))
    /\ UNCHANGED <<documents, clientVersion, files, initialized, pendingEdits, libVars>>

\* The arguments an executeCommand "replace" can carry: none, or a command
\* for any uri and version (one stamped by a code-action response, or one the
\* client made up as the test does); the text edit is passed on as it is.
TheEdit == [range |-> [start |-> Pos(0, 0), end |-> Pos(0, 1)], newText |-> "A"]
ReplaceInputs ==
    {None} \cup {Some([uri |-> u, version |-> v, textEdit |-> TheEdit]) :
                    u \in Uris, v \in 1..MaxVersion}

\* A version test that never sees a mismatch.
VersionMismatchNever(commandParams, textDocument) == FALSE

\* The version test of Handler.executeReplace.
VersionMismatch(commandParams, textDocument) == commandParams.version # textDocument.version

\* An edit request that carries the command's edit twice.
ReplaceRequestTwice(commandParams, textDocument) ==
    [uri |-> commandParams.uri, version |-> textDocument.version,
     edits |-> <<commandParams.textEdit, commandParams.textEdit>>]

\* The edit request of Handler.executeReplace: the command's text edit for the
\* document at its version.
ReplaceRequest(commandParams, textDocument) ==
    [uri |-> commandParams.uri, version |-> textDocument.version,
     edits |-> <<commandParams.textEdit>>]

\* A replace that asks first whether corrections are available.
executeReplaceWhenAvailable(docs, arg) ==
    IF ~IsSome(arg) \/ Unavailable(Self)
    THEN [applied |-> None, mismatch |-> FALSE, threw |-> FALSE]
    ELSE LET commandParams == Val(arg)
             textDocument == docs[commandParams.uri]
         IN IF ~IsSome(textDocument)
            THEN [applied |-> None, mismatch |-> FALSE, threw |-> TRUE]
            ELSE IF VersionMismatch(commandParams, Val(textDocument))
            THEN [applied |-> None, mismatch |-> TRUE, threw |-> FALSE]
            ELSE [applied |-> Some(ReplaceRequest(commandParams, Val(textDocument))),
                  mismatch |-> FALSE, threw |-> FALSE]

\* Handler.executeReplace: what it submits (None: nothing), whether it logged
\* a version mismatch, whether it threw.
executeReplace(docs, arg) ==
    IF ~IsSome(arg) THEN [applied |-> None, mismatch |-> FALSE, threw |-> FALSE]
    ELSE LET commandParams == Val(arg)
             textDocument == docs[commandParams.uri]
         IN IF ~IsSome(textDocument)
            THEN [applied |-> None, mismatch |-> FALSE, threw |-> TRUE]
            ELSE IF VersionMismatch(commandParams, Val(textDocument))
            THEN [applied |-> None, mismatch |-> TRUE, threw |-> FALSE]
            ELSE [applied |-> Some(ReplaceRequest(commandParams, Val(textDocument))),
                  mismatch |-> FALSE, threw |-> FALSE]

\* What an executeCommand did with an edit request (None: none submitted).
Submitted(applied) ==
    /\ IsSome(applied) => pendingEdits < MaxPending
    /\ pendingEdits' = IF IsSome(applied) THEN pendingEdits + 1 ELSE pendingEdits

\* The answer of Handler.executeReplace given its outcome x.
ReplaceAnswer(arg, x) ==
    /\ Submitted(x.applied)
    /\ last' = Event("replace", IF IsSome(arg) THEN Val(arg).uri ELSE "", arg,
                     [Begin(Self) EXCEPT !.threw = x.threw], None, <<>>, x.applied, x.mismatch)

\* workspace/executeCommand "replace" (Handler.onExecuteCommand, executeReplace)
ExecuteReplace(arg) ==
    /\ initialized /\ Waiting
    /\ ReplaceAnswer(arg, executeReplace(documents, arg))
    /\ UNCHANGED <<documents, clientVersion, files, initialized, published, offered,
                   handlerVars, libVars>>

\* The edits of a change set, last diff first.
EditsOfReversed(changeSet, text) ==
    LET n == Len(changeSet.diffs)
    IN [k \in 1..n |->
           [range |-> [start |-> positionAt(text, changeSet.diffs[n + 1 - k].index),
                       end |-> positionAt(text, changeSet.diffs[n + 1 - k].tailIndex)],
            newText |-> NewTextOr(changeSet.diffs[n + 1 - k])]]

\* Handler.getTextEditFromDiff for every diff of a change set.
EditsOf(changeSet, text) ==
    [k \in DOMAIN changeSet.diffs |->
        [range |-> [start |-> positionAt(text, changeSet.diffs[k].index),
                    end |-> positionAt(text, changeSet.diffs[k].tailIndex)],
         newText |-> NewTextOr(changeSet.diffs[k])]]

\* Handler.executeApplyAllQuickFixes: the edit request built from a change set.
ApplyAllRequest(changeSet, uri, doc) ==
    [uri |-> uri, version |-> doc.version, edits |-> EditsOf(changeSet, doc.text)]

\* The edit request Handler.executeApplyAllQuickFixes submits given
\* makeChangeSet's outcome m.
ApplyAllEdit(m, uri, doc) ==
    IF IsSome(m.result) THEN Some(ApplyAllRequest(Val(m.result), uri, Val(doc))) ELSE None

\* The answer of Handler.executeApplyAllQuickFixes.
ApplyAllAnswer(arg, uri, m, applied) ==
    /\ Submitted(applied)
    /\ Commit(Requested(m, uri), engineRuns)
    /\ last' = Event("applyAllQuickFixes", uri, arg, Requested(m, uri), m.result, <<>>,
                     applied, FALSE)

\* workspace/executeCommand "applyAllQuickFixes"
\* (Handler.onExecuteCommand, executeApplyAllQuickFixes)
ExecuteApplyAllQuickFixes(arg, thrown) ==
    /\ initialized /\ Waiting
    /\ IF IsSome(arg)
       THEN ApplyAllAnswer(arg, Val(arg),
                           makeChangeSet(Self, files, Val(arg), documents[Val(arg)], thrown),
                           ApplyAllEdit(makeChangeSet(Self, files, Val(arg),
                                                      documents[Val(arg)], thrown),
                                        Val(arg), documents[Val(arg)]))
       ELSE ApplyAllAnswer(arg, "", Returned(Self, None, <<>>, <<>>, FALSE, FALSE), None)
    /\ UNCHANGED <<documents, clientVersion, files, initialized, offered, libVars>>

\* workspace/executeCommand with any other command: logged.
ExecuteUnknown ==
    /\ initialized /\ Waiting
    /\ UNCHANGED vars

\* An answer whose handler drops the stored validation results.
ApplyEditAnswerClearing(ok) ==
    /\ Waiting
    /\ pendingEdits > 0
    /\ pendingEdits' = pendingEdits - 1
    /\ validationCache' = EmptyMap
    /\ last' = Event(IF ok THEN "applyEditApplied" ELSE "applyEditFailed",
                     "", None, Begin(Self), None, <<>>, None, FALSE)
    /\ UNCHANGED <<documents, clientVersion, files, initialized, published, offered,
                   enable, configPaths, state, engineCache, missingAtCheck, engineRuns,
                   libVars>>

\* The host answers an applyEdit: the promise's then-handlers of
\* executeReplace and executeApplyAllQuickFixes log the result or the error.
ApplyEditAnswer(ok) ==
    /\ Waiting
    /\ pendingEdits > 0
    /\ pendingEdits' = pendingEdits - 1
    /\ last' = Event(IF ok THEN "applyEditApplied" ELSE "applyEditFailed",
                     "", None, Begin(Self), None, <<>>, None, FALSE)
    /\ UNCHANGED <<documents, clientVersion, files, initialized, published, offered,
                   handlerVars, libVars>>

\* The messages of the last event are on the wire; the connection reads the
\* next message.
Delivered ==
    /\ ~Waiting
    /\ last' = Idle
    /\ UNCHANGED <<documents, clientVersion, files, initialized, published, pendingEdits,
                   offered, handlerVars, libVars>>

\* ------------------------------- the single-path Handler (src/lib/index.ts)

\* The lib Handler's fields as one value.
LibSelf == [engine |-> libEngine, enable |-> libEnable, configPath |-> libConfigPath,
            workspaceRoot |-> workspaceRoot, validationCache |-> libValidationCache]

\* settings.prh.configFile || "prh.yml"
DefaultConfigPath == <<"p">>
ConfigFileInputs == {None, Some(RulesYml), Some(GoneYml)}

\* Uri.toString of the uri at a path.
UriToString(path) ==
    CASE path = <<"/", "w", "/", "r">> -> "file:///w/r"
      [] path = <<"/", "w", "/", "p">> -> "file:///w/p"
      [] path = <<"/", "w", "/", "g">> -> "file:///w/g"
      [] OTHER -> "file:///w/n"

\* lib diff.expected || diff.matches[0]
ExpectedOr(diff) == IF diff.newText = "" THEN diff.matched ELSE diff.newText

\* lib Handler.documentValidate on documents.get(uri).
documentValidate(h, uri, doc) ==
    LET ret(h2, res, inv, thr) == [h |-> h2, result |-> res, invoked |-> inv, threw |-> thr]
    IN
    IF ~IsSome(h.engine) \/ h.enable # Some(TRUE) THEN ret(h, None, FALSE, FALSE)
    ELSE IF ~IsSome(doc) THEN ret(h, None, FALSE, TRUE)
    ELSE IF uri \in DOMAIN h.validationCache /\ IsSome(h.validationCache[uri])
            /\ Val(h.validationCache[uri]).version = Val(doc).version
    THEN ret(h, Some(Val(h.validationCache[uri]).changeSet), FALSE, FALSE)
    ELSE
    LET changeSet == EngineMakeChangeSet(Val(h.engine), Val(doc).text)
        vc == [u \in (DOMAIN h.validationCache) \cup {uri} |->
                  IF u = uri
                  THEN Some([version |-> Val(doc).version, changeSet |-> changeSet,
                             text |-> Val(doc).text, engine |-> Val(h.engine).src])
                  ELSE h.validationCache[u]]
    IN ret([h EXCEPT !.validationCache = vc], Some(changeSet), TRUE, FALSE)

\* What the diagnostics of the lib Handler are: as DiagnosticsOf, the message
\* from diff.expected.
LibDiagnosticsOf(changeSet, text) ==
    [k \in DOMAIN changeSet.diffs |->
        [range |-> [start |-> positionAt(text, changeSet.diffs[k].index),
                    end |-> positionAt(text, changeSet.diffs[k].tailIndex)],
         message |-> NewTextOr(changeSet.diffs[k])]]

\* lib Handler.sendValidationDiagnostics as a step of an event.
sendValidationDiagnostics(r, docs, uri) ==
    IF r.threw THEN r
    ELSE LET m == documentValidate(r.h, uri, docs[uri])
         IN [r EXCEPT !.h = m.h,
                      !.pushes = IF IsSome(m.result)
                                 THEN [@ EXCEPT ![uri] = Append(@, LibDiagnosticsOf(Val(m.result), Val(docs[uri]).text))]
                                 ELSE @,
                      !.invoked = IF m.invoked THEN [@ EXCEPT ![uri] = @ + 1] ELSE @,
                      !.nulls = IF ~m.threw /\ ~IsSome(m.result) THEN @ \cup {uri} ELSE @,
                      !.versions = IF IsSome(m.result)
                                   THEN [@ EXCEPT ![uri] = Val(m.h.validationCache[uri]).version]
                                   ELSE @,
                      !.threw = m.threw]

RECURSIVE sendEach(_, _, _)
\* this.documents.all().forEach(document => this.sendValidationDiagnostics(document))
sendEach(r, docs, order) ==
    IF Len(order) = 0 THEN r
    ELSE sendEach(sendValidationDiagnostics(r, docs, order[1]), docs, Tail(order))

\* lib Handler.loadConfig: fromYAMLFilePath throws out of it when the file is
\* absent or does not parse, before the engine is assigned.
loadConfig(r, fs, docs, order) ==
    LET h1 == [r.h EXCEPT !.validationCache = EmptyMap]
    IN IF ~IsSome(r.h.configPath) \/ ~CanBuild(fs, <<Val(r.h.configPath)>>)
       THEN [r EXCEPT !.h = h1, !.threw = TRUE]
       ELSE sendEach([r EXCEPT !.h = [h1 EXCEPT !.engine = Some(fromYAMLFilePaths(<<Val(r.h.configPath)>>))],
                               !.built = <<Val(r.h.configPath)>>],
                     docs, order)

LibCommit(r) ==
    /\ libEngine' = r.h.engine
    /\ libEnable' = r.h.enable
    /\ libConfigPath' = r.h.configPath
    /\ workspaceRoot' = r.h.workspaceRoot
    /\ libValidationCache' = r.h.validationCache
    /\ published' = Publish(published, r.pushes)

\* lib Handler.onInitialized
LibInitialize(root) ==
    /\ ~initialized
    /\ initialized' = TRUE
    /\ workspaceRoot' = root
    /\ UNCHANGED <<documents, clientVersion, files, published, pendingEdits, offered, last,
                   handlerVars, libEngine, libEnable, libConfigPath, libValidationCache>>

\* textDocument/didOpen with the lib Handler (onDidChangeContent).
LibDidOpen(uri, version, text) ==
    /\ initialized /\ Waiting
    /\ ~IsSome(documents[uri])
    /\ version >= clientVersion[uri]
    /\ LET docs == [documents EXCEPT ![uri] = Some([version |-> version, text |-> text])]
           r == sendValidationDiagnostics(Begin(LibSelf), docs, uri)
       IN /\ documents' = docs
          /\ clientVersion' = [clientVersion EXCEPT ![uri] = version]
          /\ LibCommit(r)
          /\ last' = Event("didOpen", uri, None, r, None, <<>>, None, FALSE)
    /\ UNCHANGED <<files, initialized, pendingEdits, offered, handlerVars>>

\* textDocument/didChange with the lib Handler (onDidChangeContent).
LibDidChange(uri, text) ==
    /\ initialized /\ Waiting
    /\ IsSome(documents[uri])
    /\ Val(documents[uri]).version < MaxVersion
    /\ LET version == Val(documents[uri]).version + 1
           docs == [documents EXCEPT ![uri] = Some([version |-> version, text |-> text])]
           r == sendValidationDiagnostics(Begin(LibSelf), docs, uri)
       IN /\ documents' = docs
          /\ clientVersion' = [clientVersion EXCEPT ![uri] = version]
          /\ LibCommit(r)
          /\ last' = Event("didChange", uri, None, r, None, <<>>, None, FALSE)
    /\ UNCHANGED <<files, initialized, pendingEdits, offered, handlerVars>>

\* lib Handler.onDidChangeConfiguration
LibOnDidChangeConfiguration(settingsEnable, configFile, order) ==
    /\ initialized /\ Waiting
    /\ LET h0 == [LibSelf EXCEPT !.enable = Some(settingsEnable = Some(TRUE)),
                                 !.configPath = IF IsSome(configFile) THEN configFile
                                                ELSE Some(DefaultConfigPath)]
           r == loadConfig(Begin(h0), files, documents, order)
       IN /\ LibCommit(r)
          /\ last' = Event("didChangeConfiguration", "",
                           Some([enable |-> settingsEnable, configFile |-> configFile]),
                           r, None, <<>>, None, FALSE)
    /\ UNCHANGED <<documents, clientVersion, files, initialized, pendingEdits, offered, handlerVars>>

\* lib Handler.onDidChangeWatchedFiles: configChanged is the array filter
\* returns, and an array is truthy whatever it holds.
LibOnDidChangeWatchedFiles(changes, order) ==
    /\ initialized /\ Waiting
    /\ LET resolved == IF IsSome(workspaceRoot) /\ IsSome(libConfigPath)
                       THEN Resolve(UriParse(Val(workspaceRoot)).path, Val(libConfigPath))
                       ELSE <<>>
           configChanged == {c \in changes : c = UriToString(resolved)}
           arrayIsTruthy == configChanged = configChanged
           r == IF ~IsSome(workspaceRoot) THEN Begin(LibSelf)
                ELSE IF ~IsSome(libConfigPath) THEN [Begin(LibSelf) EXCEPT !.threw = TRUE]
                ELSE IF arrayIsTruthy THEN loadConfig(Begin(LibSelf), files, documents, order)
                ELSE Begin(LibSelf)
       IN /\ LibCommit(r)
          /\ last' = Event("didChangeWatchedFiles", "", Some(changes), r, None, <<>>, None, FALSE)
    /\ UNCHANGED <<documents, clientVersion, files, initialized, pendingEdits, offered, handlerVars>>

\* The replace commands of the lib Handler.onCodeAction.
LibCommandsOf(changeSet, uri, doc, range) ==
    LET index == offsetAt(doc.text, range.start)
        tailIndex == offsetAt(doc.text, range.end)
        Exact(diff) == diff.index = index /\ diff.tailIndex = tailIndex
        hits == SelectSeq(changeSet.diffs, Exact)
    IN [k \in DOMAIN hits |->
           [uri |-> uri, version |-> doc.version,
            textEdit |-> [range |-> range, newText |-> ExpectedOr(hits[k])]]]

\* lib Handler.onCodeAction
LibOnCodeAction(uri, range, keep) ==
    /\ initialized /\ Waiting
    /\ LET doc == documents[uri]
           m == documentValidate(LibSelf, uri, doc)
           r == [Begin(m.h) EXCEPT !.invoked = IF m.invoked THEN [NoRuns EXCEPT ![uri] = 1] ELSE NoRuns,
                                   !.nulls = IF ~m.threw /\ ~IsSome(m.result) THEN {uri} ELSE {},
                                   !.threw = m.threw]
           commands == IF IsSome(m.result) THEN LibCommandsOf(Val(m.result), uri, Val(doc), range)
                       ELSE <<>>
       IN /\ LibCommit(r)
          /\ offered' = IF keep /\ Len(commands) > 0
                        THEN Some([uri |-> uri, version |-> Val(doc).version])
                        ELSE offered
          /\ last' = Event("codeAction", uri, Some(range), r, m.result, commands, None, FALSE)
    /\ UNCHANGED <<documents, clientVersion, files, initialized, pendingEdits, handlerVars>>

\* workspace/executeCommand "replace" with the lib Handler (executeReplace,
\* the same statements as the multi-path Handler's up to the applyEdit).
LibExecuteReplace(arg) ==
    /\ initialized /\ Waiting
    /\ LET x == executeReplace(documents, arg)
           r == [Begin(LibSelf) EXCEPT !.threw = x.threw]
       IN /\ IsSome(x.applied) => pendingEdits < MaxPending
          /\ pendingEdits' = IF IsSome(x.applied) THEN pendingEdits + 1 ELSE pendingEdits
          /\ last' = Event("replace", IF IsSome(arg) THEN Val(arg).uri ELSE "", arg, r, None,
                           <<>>, x.applied, x.mismatch)
    /\ UNCHANGED <<documents, clientVersion, files, initialized, published, offered,
                   handlerVars, libVars>>

\* lib Handler.getTextEditFromDiff for every diff of a change set.
LibEditsOf(changeSet, text) ==
    [k \in DOMAIN changeSet.diffs |->
        [range |-> [start |-> positionAt(text, changeSet.diffs[k].index),
                    end |-> positionAt(text, changeSet.diffs[k].tailIndex)],
         newText |-> ExpectedOr(changeSet.diffs[k])]]

\* workspace/executeCommand "applyAllQuickFixes" with the lib Handler.
LibExecuteApplyAllQuickFixes(arg) ==
    /\ initialized /\ Waiting
    /\ LET uri == IF IsSome(arg) THEN Val(arg) ELSE ""
           m == IF IsSome(arg) THEN documentValidate(LibSelf, uri, documents[uri])
                ELSE [h |-> LibSelf, result |-> None, invoked |-> FALSE, threw |-> FALSE]
           r == [Begin(m.h) EXCEPT !.invoked = IF m.invoked THEN [NoRuns EXCEPT ![uri] = 1] ELSE NoRuns,
                                   !.nulls = IF ~m.threw /\ ~IsSome(m.result) THEN {uri} ELSE {},
                                   !.threw = m.threw]
           applied == IF IsSome(m.result)
                      THEN Some([uri |-> uri, version |-> Val(documents[uri]).version,
                                 edits |-> LibEditsOf(Val(m.result), Val(documents[uri]).text)])
                      ELSE None
       IN /\ IsSome(applied) => pendingEdits < MaxPending
          /\ LibCommit(r)
          /\ pendingEdits' = IF IsSome(applied) THEN pendingEdits + 1 ELSE pendingEdits
          /\ last' = Event("applyAllQuickFixes", uri, arg, r, m.result, <<>>, applied, FALSE)
    /\ UNCHANGED <<documents, clientVersion, files, initialized, offered, handlerVars>>

\* The host answers an applyEdit of the lib Handler: its promises have a
\* then-handler for the result and none for a rejection.
LibApplyEditAnswer(ok) ==
    /\ Waiting
    /\ pendingEdits > 0
    /\ pendingEdits' = pendingEdits - 1
    /\ last' = Event(IF ok THEN "applyEditApplied" ELSE "applyEditFailed",
                     "", None, [Begin(LibSelf) EXCEPT !.threw = ~ok], None, <<>>, None, FALSE)
    /\ UNCHANGED <<documents, clientVersion, files, initialized, published, offered,
                   handlerVars, libVars>>

\* ------------------------------------------------------------ Spec

Init ==
    /\ documents = [u \in Uris |-> None]
    /\ clientVersion = [u \in Uris |-> 0]
    /\ files \in {f \in [Files -> {"missing", "ok", "bad"}] : \A p \in Files : f[p] \in FileStates(p)}
    /\ initialized = FALSE
    /\ enable = None
    /\ configPaths = None
    /\ state = "valid"
    /\ engineCache = EmptyMap
    /\ validationCache = EmptyMap
    /\ missingAtCheck = None
    /\ engineRuns = NoRuns
    /\ published = [u \in Uris |-> None]
    /\ pendingEdits = 0
    /\ offered = None
    /\ last = Idle
    /\ libEngine = None
    /\ libEnable = None
    /\ libConfigPath = None
    /\ workspaceRoot = None
    /\ libValidationCache = EmptyMap

\* One document of two texts, opened, changed, closed and reopened, its
\* diagnostics, code actions and quick fixes; requests may also name the uri
\* that is never open.
Next ==
    \/ Initialize
    \/ \E version \in 1..MaxVersion, text \in Texts, thrown \in Thrown :
          DidOpen(FileDoc, version, text, thrown)
    \/ \E text \in Texts, thrown \in Thrown : DidChange(FileDoc, text, thrown)
    \/ DidClose(FileDoc)
    \/ \E path \in Files : \E to \in FileStates(path) : FileChange(path, to)
    \/ \E e \in EnableInputs, c \in ConfigFilesInputs, order \in Orders(OpenDocs), thrown \in Thrown :
          onDidChangeConfiguration(e, c, order, thrown)
    \/ \E changes \in WatchedInputs, order \in Orders(OpenDocs), thrown \in Thrown :
          onDidChangeWatchedFiles(changes, order, thrown)
    \/ \E uri \in Uris, range \in Ranges, thrown \in Thrown : onCodeAction(uri, range, thrown, FALSE)
    \/ \E arg \in {None} \cup {Some(u) : u \in Uris}, thrown \in Thrown :
          ExecuteApplyAllQuickFixes(arg, thrown)
    \/ ExecuteUnknown
    \/ \E ok \in BOOLEAN : ApplyEditAnswer(ok)
    \/ Delivered

Spec == Init /\ [][Next]_vars

\* Two documents of one text, opened and changed and left open.
TextAll == <<"a", "\n", "b">>

NextAll ==
    \/ Initialize
    \/ \E uri \in Uris, version \in 1..MaxVersion, thrown \in Thrown :
          DidOpen(uri, version, TextAll, thrown)
    \/ \E uri \in Uris, thrown \in Thrown : DidChange(uri, TextAll, thrown)
    \/ \E path \in Files : \E to \in FileStates(path) : FileChange(path, to)
    \/ \E e \in EnableInputs, c \in ConfigFilesInputs, order \in Orders(OpenDocs), thrown \in Thrown :
          onDidChangeConfiguration(e, c, order, thrown)
    \/ \E changes \in WatchedInputs, order \in Orders(OpenDocs), thrown \in Thrown :
          onDidChangeWatchedFiles(changes, order, thrown)
    \/ \E uri \in Uris, thrown \in Thrown : onCodeAction(uri, EmptyRange, thrown, FALSE)
    \/ Delivered

SpecAll == Init /\ [][NextAll]_vars

\* One document and the commands on it: the code actions the client keeps,
\* the replace and applyAllQuickFixes commands, the host's answers.
NextCommands ==
    \/ Initialize
    \/ \E version \in 1..MaxVersion, text \in Texts, thrown \in Thrown :
          DidOpen(FileDoc, version, text, thrown)
    \/ \E text \in Texts, thrown \in Thrown : DidChange(FileDoc, text, thrown)
    \/ \E e \in EnableInputs, c \in ConfigFilesInputs, order \in Orders(OpenDocs), thrown \in Thrown :
          onDidChangeConfiguration(e, c, order, thrown)
    \/ \E uri \in Uris, range \in Ranges, thrown \in Thrown : onCodeAction(uri, range, thrown, TRUE)
    \/ \E arg \in ReplaceInputs : ExecuteReplace(arg)
    \/ \E arg \in {None} \cup {Some(u) : u \in Uris}, thrown \in Thrown :
          ExecuteApplyAllQuickFixes(arg, thrown)
    \/ ExecuteUnknown
    \/ \E ok \in BOOLEAN : ApplyEditAnswer(ok)
    \/ Delivered

SpecCommands == Init /\ [][NextCommands]_vars

\* The single-path Handler with one document, opened and changed.
NextLib ==
    \/ \E root \in {None, Some("file:///w")} : LibInitialize(root)
    \/ \E version \in 1..MaxVersion, text \in Texts : LibDidOpen(FileDoc, version, text)
    \/ \E text \in Texts : LibDidChange(FileDoc, text)
    \/ \E path \in Files : \E to \in FileStates(path) : FileChange(path, to)
    \/ \E e \in EnableInputs, c \in ConfigFileInputs, order \in Orders(OpenDocs) :
          LibOnDidChangeConfiguration(e, c, order)
    \/ \E changes \in WatchedInputs, order \in Orders(OpenDocs) :
          LibOnDidChangeWatchedFiles(changes, order)
    \/ \E uri \in Uris : LibOnCodeAction(uri, EmptyRange, FALSE)
    \/ \E arg \in ReplaceInputs : LibExecuteReplace(arg)
    \/ \E arg \in {None} \cup {Some(u) : u \in Uris} : LibExecuteApplyAllQuickFixes(arg)
    \/ ExecuteUnknown
    \/ \E ok \in BOOLEAN : LibApplyEditAnswer(ok)
    \/ Delivered

SpecLib == Init /\ [][NextLib]_vars

\* ----------------------------------------------------------- properties

\* The rule paths Handler.makeChangeSet resolves for a uri in this state.
ResolvedPaths(u) == RulePaths(Self, files, u)

\* C1: once a result is stored for an open document at its version, a further
\* makeChangeSet for it (a code action, applyAllQuickFixes, or the push of a
\* reopening with the same version and text) returns the stored result,
\* leaves the cache as it is and does not invoke the engine: the invocation
\* count of every document at its version never exceeds 1.
C1_CacheHit ==
    [][\A u \in Uris :
          /\ engineRuns'[u] <= 1
          /\ ( /\ last'.kind \in {"codeAction", "applyAllQuickFixes", "didOpen"}
               /\ last'.uri = u
               /\ IsSome(documents'[u])
               /\ u \in DOMAIN validationCache
               /\ validationCache[u].version = Val(documents'[u]).version
               /\ validationCache[u].text = Val(documents'[u]).text )
             => /\ last'.invoked[u] = 0 /\ last'.built = <<>> /\ ~last'.threw
                /\ engineRuns'[u] = 1
                /\ validationCache' = validationCache
                /\ last'.kind # "didOpen" => last'.result = Some(validationCache[u].changeSet)
                /\ last'.kind = "didOpen" =>
                       last'.pushes[u] = <<DiagnosticsOf(validationCache[u].changeSet,
                                                        Val(documents'[u]).text)>>
      ]_vars

\* A code action answered from the cache: the engine ran once for the
\* document's version and not in this request.
C1_Witness ==
    /\ last.kind = "codeAction" /\ last.uri = FileDoc
    /\ IsSome(last.result) /\ Len(Val(last.result).diffs) > 0
    /\ last.invoked[FileDoc] = 0
    /\ engineRuns[FileDoc] = 1
    /\ FileDoc \in DOMAIN validationCache
    /\ last.result = Some(validationCache[FileDoc].changeSet)

\* C2 as stated: whenever a document with an entry of version V is validated
\* at a greater version while enabled and valid, the engine is invoked on its
\* current text and the entry afterwards carries the new version.
C2_AsStated ==
    [][\A u \in Uris :
          ( /\ last'.kind \in {"didChange", "didOpen"} /\ last'.uri = u
            /\ u \in DOMAIN validationCache
            /\ Val(documents'[u]).version > validationCache[u].version
            /\ enable = Some(TRUE) /\ state = "valid" )
          => /\ last'.invoked[u] = 1
             /\ u \in DOMAIN validationCache'
             /\ validationCache'[u].version = Val(documents'[u]).version
             /\ validationCache'[u].text = Val(documents'[u]).text
      ]_vars

\* C2 (amended): whenever a document with an entry of version V is validated
\* at a greater version while enabled and valid, the stale entry is removed;
\* if a rule set still resolves for the document, the engine is invoked on its
\* current text and the entry afterwards carries the new version; if none
\* resolves, the engine is not invoked, no entry remains and the push is empty.
C2_Revalidation ==
    [][\A u \in Uris :
          ( /\ last'.kind \in {"didChange", "didOpen"} /\ last'.uri = u
            /\ u \in DOMAIN validationCache
            /\ Val(documents'[u]).version > validationCache[u].version
            /\ enable = Some(TRUE) /\ state = "valid" )
          => /\ u \in DOMAIN validationCache' => validationCache'[u] # validationCache[u]
             /\ IsSome(ResolvedPaths(u)) =>
                   /\ last'.invoked[u] = 1
                   /\ u \in DOMAIN validationCache'
                   /\ validationCache'[u].version = Val(documents'[u]).version
                   /\ validationCache'[u].text = Val(documents'[u]).text
                   /\ validationCache'[u].changeSet =
                          EngineMakeChangeSet(fromYAMLFilePaths(validationCache'[u].engine),
                                              Val(documents'[u]).text)
             /\ ~IsSome(ResolvedPaths(u)) =>
                   /\ last'.invoked[u] = 0
                   /\ u \notin DOMAIN validationCache'
                   /\ last'.pushes[u] = << <<>> >>
      ]_vars

\* A change of a validated document: the engine ran on the new text and the
\* entry carries the new version.
C2_Witness ==
    /\ last.kind = "didChange" /\ last.uri = FileDoc
    /\ last.invoked[FileDoc] = 1 /\ last.built = <<>>
    /\ FileDoc \in DOMAIN validationCache
    /\ validationCache[FileDoc].version = 2
    /\ validationCache[FileDoc].text = Val(documents[FileDoc]).text

\* The events that push diagnostics.
PushKinds == {"didOpen", "didChange", "didChangeConfiguration", "didChangeWatchedFiles"}

\* C3: in both handlers, whenever the validation of a document in a
\* diagnostics push yields null, that push publishes the empty list for the
\* document.
C3_NullPublishesEmpty ==
    last.kind \in PushKinds =>
        \A u \in last.nulls :
            /\ Len(last.pushes[u]) > 0
            /\ last.pushes[u][Len(last.pushes[u])] = <<>>
            /\ published[u] = Some(<<>>)

\* C4: in both handlers, no stored validation result was computed by an
\* engine of other paths than the ones now configured, and the multi-path
\* handler caches no engine of other paths, also after a configuration
\* change whose engine cannot be built.
C4_NoEngineOfOldPaths ==
    /\ \A u \in DOMAIN libValidationCache :
          IsSome(libValidationCache[u]) =>
              Val(libValidationCache[u]).engine = <<Val(libConfigPath)>>
    /\ \A u \in DOMAIN validationCache :
          validationCache[u].engine =
              IF Len(Val(configPaths)) > 0 THEN Val(configPaths) ELSE <<PrhYml>>
    /\ \A key \in DOMAIN engineCache :
          key = EngineKey(IF Len(Val(configPaths)) > 0 THEN Val(configPaths) ELSE <<PrhYml>>)

\* C5: a replace command whose version differs from the open document's
\* submits no applyEdit, logs the mismatch, does not throw and changes
\* neither the handler's fields nor what is pending or published.
C5_StaleReplaceRejected ==
    [][( /\ last'.kind = "replace" /\ IsSome(last'.input)
         /\ IsSome(documents[Val(last'.input).uri])
         /\ Val(last'.input).version # Val(documents[Val(last'.input).uri]).version )
       => /\ last'.applied = None /\ last'.mismatch /\ ~last'.threw
          /\ pendingEdits' = pendingEdits
          /\ UNCHANGED <<handlerVars, published, documents>>
      ]_vars

\* A replace command stamped by a code action at version 1, executed at
\* version 2 and rejected.
C5_Witness ==
    /\ last.kind = "replace" /\ last.mismatch /\ last.applied = None
    /\ offered = Some([uri |-> FileDoc, version |-> 1])
    /\ Val(last.input).uri = FileDoc /\ Val(last.input).version = 1
    /\ Val(documents[FileDoc]).version = 2

\* C6: applyAllQuickFixes on a document whose validation yields k corrections
\* submits one applyEdit of k edits, the k-th the edit of the k-th correction,
\* by ascending start offset and without overlap, at the document's version,
\* from the validation result stored for that version.
C6_ApplyAllQuickFixes ==
    [][( last'.kind = "applyAllQuickFixes" /\ IsSome(last'.result) )
       => LET u == last'.uri
              doc == Val(documents[u])
              diffs == Val(last'.result).diffs
              req == Val(last'.applied)
              off(pos) == offsetAt(doc.text, pos)
          IN /\ IsSome(last'.applied)
             /\ pendingEdits' = pendingEdits + 1
             /\ req.uri = u /\ req.version = doc.version
             /\ Len(req.edits) = Len(diffs)
             /\ \A k \in DOMAIN diffs :
                   /\ req.edits[k].range.start = positionAt(doc.text, diffs[k].index)
                   /\ req.edits[k].range.end = positionAt(doc.text, diffs[k].tailIndex)
                   /\ req.edits[k].newText = NewTextOr(diffs[k])
             /\ \A i, j \in DOMAIN req.edits :
                   i < j => /\ off(req.edits[i].range.start) <= off(req.edits[j].range.start)
                            /\ off(req.edits[i].range.end) <= off(req.edits[j].range.start)
             /\ u \in DOMAIN validationCache'
             /\ validationCache'[u].version = doc.version
             /\ validationCache'[u].changeSet = Val(last'.result)
      ]_vars

\* An applyAllQuickFixes that submitted two edits.
C6_Witness ==
    /\ last.kind = "applyAllQuickFixes" /\ IsSome(last.applied)
    /\ Len(Val(last.applied).edits) = 2
    /\ Val(last.applied).edits[1].range.start = Pos(0, 0)
    /\ Val(last.applied).edits[2].range.start = Pos(1, 0)
    /\ pendingEdits = 1

\* C7: from the valid state, a configuration change with enable = true and a
\* configured path that does not exist shows one warning, sets the state to
\* invalid and publishes the empty list, and nothing else, for every open
\* document.
C7_MissingRulePath ==
    [][( /\ state = "valid"
         /\ last'.kind = "didChangeConfiguration"
         /\ Val(last'.input).enable = Some(TRUE)
         /\ IsSome(Val(last'.input).configFiles)
         /\ \E i \in DOMAIN Val(Val(last'.input).configFiles) :
                ~ExistsSync(files, Val(Val(last'.input).configFiles)[i]) )
       => /\ Len(last'.warnings) = 1
          /\ state' = "invalid"
          /\ ~last'.threw
          /\ \A u \in OpenDocs : Len(last'.pushes[u]) > 0 /\ published'[u] = Some(<<>>)
          /\ \A u \in Uris : \A k \in DOMAIN last'.pushes[u] : last'.pushes[u][k] = <<>>
      ]_vars

\* A configuration change naming a missing path with two documents open, one
\* of which had corrections: one warning, and both documents were cleared.
C7_Witness ==
    /\ last.kind = "didChangeConfiguration" /\ Len(last.warnings) = 1
    /\ state = "invalid" /\ enable = Some(TRUE)
    /\ OpenDocs = Uris
    /\ \A u \in Uris : Len(last.pushes[u]) = 2 /\ published[u] = Some(<<>>)

\* C8: once the state is invalid, a configuration change, and equally a
\* watched-files change naming a configured rule file, that comes when every
\* configured path exists sets the state to valid and validates every open
\* document.
C8_Recovery ==
    [][( /\ state = "invalid"
         /\ \/ /\ last'.kind = "didChangeConfiguration"
               /\ \A i \in DOMAIN Val(configPaths') : ExistsSync(files, Val(configPaths')[i])
            \/ /\ last'.kind = "didChangeWatchedFiles"
               /\ \A i \in DOMAIN Val(configPaths) : ExistsSync(files, Val(configPaths)[i])
               /\ \E c \in Val(last'.input) : \E i \in DOMAIN Val(configPaths) :
                      EndsWith(UriParse(c).path, Val(configPaths)[i]) )
       => /\ state' = "valid"
          /\ \A u \in OpenDocs : Len(last'.pushes[u]) > 0 \/ last'.threw
      ]_vars

\* C9: whenever the state is invalid, the last checkConfig found a configured
\* path missing, makeChangeSet returns null for every uri without building or
\* invoking an engine (and the last event did neither), and the last list
\* published for every open document is empty.
C9_Invalid ==
    state = "invalid" =>
        /\ IsSome(missingAtCheck)
        /\ \E i \in DOMAIN Val(configPaths) : Val(configPaths)[i] = Val(missingAtCheck)
        /\ \A u \in Uris : \A thrown \in {"Error", "other"} :
              LET m == makeChangeSet(Self, files, u, documents[u], thrown)
              IN ~IsSome(m.result) /\ ~m.invoked /\ m.built = <<>> /\ ~m.threw /\ m.h = Self
        /\ last.built = <<>> /\ last.invoked = NoRuns /\ ~IsSome(last.result)
        /\ \A u \in OpenDocs : published[u] = Some(<<>>)

\* Invalid, with a document that was validated and shown corrections before
\* and a document opened since, the configured path on disk again.
C9_Witness ==
    /\ state = "invalid" /\ enable = Some(TRUE)
    /\ last.kind = "didOpen" /\ last.uri = UntitledDoc
    /\ OpenDocs = Uris
    /\ configPaths = Some(<<RulesYml>>) /\ ExistsSync(files, RulesYml)
    /\ \A u \in Uris : published[u] = Some(<<>>)

\* C10: the entry of a document is never replaced by one of a lower version
\* (an entry stored carries the highest version the client has sent, and
\* those versions never decrease), and every push of computed diagnostics is
\* computed against that highest version, so none is computed against a
\* version lower than one published before.
C10_Monotone ==
    [][\A u \in Uris :
          /\ clientVersion'[u] >= clientVersion[u]
          /\ (u \in DOMAIN validationCache /\ u \in DOMAIN validationCache')
                => validationCache'[u].version >= validationCache[u].version
          /\ u \in DOMAIN validationCache' => validationCache'[u].version <= clientVersion'[u]
          /\ (u \in DOMAIN validationCache' /\ last'.invoked[u] > 0)
                => validationCache'[u].version = clientVersion'[u]
          /\ last'.versions[u] > 0 => last'.versions[u] = clientVersion'[u]
      ]_vars

\* Diagnostics computed for version 2 published over an entry of version 1.
C10_Witness ==
    /\ last.kind = "didChange" /\ last.uri = FileDoc
    /\ last.versions[FileDoc] = 2
    /\ validationCache[FileDoc].version = 2
    /\ IsSome(published[FileDoc]) /\ Len(Val(published[FileDoc])) > 0

\* C11: no handler throws, whatever the event (requests naming a document
\* that is not open and engine construction failing with any value included);
\* a request whose validation yields nothing offers no command and submits no
\* edit, and a push whose validation yields nothing leaves the empty list
\* published.
C11_FailuresDegrade ==
    /\ ~last.threw
    /\ (last.kind \in {"codeAction", "applyAllQuickFixes"} /\ ~IsSome(last.result))
          => (last.commands = <<>> /\ last.applied = None)
    /\ last.kind \in PushKinds =>
          \A u \in last.nulls : published[u] = Some(<<>>)

\* C12: whenever makeChangeSet answers from the cache (the entry's version is
\* the document's), the document's text is the text the stored result was
\* computed from, closing and reopening with another text included.
C12_HitOnCurrentText ==
    [][\A u \in Uris :
          ( /\ last'.kind \in {"didOpen", "didChange", "codeAction", "applyAllQuickFixes"}
            /\ last'.uri = u
            /\ IsSome(documents'[u])
            /\ ~Unavailable(Self)
            /\ CacheHit(Self, u, Val(documents'[u])) )
          => validationCache[u].text = Val(documents'[u]).text
      ]_vars

\* C13: a code action that does not throw returns the empty list when the
\* validation yields null; otherwise it returns one replace command for each
\* correction whose span [index, tailIndex) is the requested range converted
\* to offsets, in their order, and none for a correction that the range only
\* overlaps or misses; every command carries the document's uri, the
\* document's version at the request, the requested range and the
\* correction's text.
C13_CodeActions ==
    [][( last'.kind = "codeAction" /\ ~last'.threw )
       => IF ~IsSome(last'.result) THEN last'.commands = <<>>
          ELSE LET u == last'.uri
                   doc == Val(documents[u])
                   range == Val(last'.input)
                   diffs == Val(last'.result).diffs
                   exact == {k \in DOMAIN diffs :
                                /\ diffs[k].index = offsetAt(doc.text, range.start)
                                /\ diffs[k].tailIndex = offsetAt(doc.text, range.end)}
               IN /\ Len(last'.commands) = Cardinality(exact)
                  /\ \A k \in exact :
                        \E c \in DOMAIN last'.commands :
                            last'.commands[c].textEdit.newText = NewTextOr(diffs[k])
                  /\ \A c \in DOMAIN last'.commands :
                        /\ last'.commands[c].uri = u
                        /\ last'.commands[c].version = doc.version
                        /\ last'.commands[c].version = clientVersion[u]
                        /\ last'.commands[c].textEdit.range = range
                        /\ \E k \in exact :
                              last'.commands[c].textEdit.newText = NewTextOr(diffs[k])
      ]_vars

\* A code action for the span of the second of two corrections of a document
\* at version 2: one command, for that correction.
C13_Witness ==
    /\ last.kind = "codeAction" /\ last.uri = FileDoc
    /\ last.input = Some([start |-> Pos(1, 0), end |-> Pos(1, 1)])
    /\ IsSome(last.result) /\ Len(Val(last.result).diffs) = 2
    /\ Len(last.commands) = 1
    /\ last.commands[1].version = 2
    /\ last.commands[1].textEdit.newText = "??"

\* C14: a replace command whose version is the open document's version
\* submits one applyEdit, of the one text edit the command carries, for that
\* document at its version, without throwing and without touching the
\* handler's fields, the documents or what is published.
C14_ReplaceSubmitsOneEdit ==
    [][( /\ last'.kind = "replace" /\ IsSome(last'.input)
         /\ IsSome(documents[Val(last'.input).uri])
         /\ Val(last'.input).version = Val(documents[Val(last'.input).uri]).version )
       => /\ ~last'.threw /\ ~last'.mismatch
          /\ IsSome(last'.applied)
          /\ pendingEdits' = pendingEdits + 1
          /\ Val(last'.applied).uri = Val(last'.input).uri
          /\ Val(last'.applied).version = Val(documents[Val(last'.input).uri]).version
          /\ Len(Val(last'.applied).edits) = 1
          /\ Val(last'.applied).edits[1] = Val(last'.input).textEdit
          /\ UNCHANGED <<handlerVars, published, documents>>
      ]_vars

\* A replace command stamped by a code action at version 2 and executed at
\* version 2: one edit submitted and awaiting the host's answer.
C14_Witness ==
    /\ last.kind = "replace" /\ IsSome(last.applied) /\ ~last.threw
    /\ offered = Some([uri |-> FileDoc, version |-> 2])
    /\ Val(last.input).uri = FileDoc /\ Val(last.input).version = 2
    /\ Val(documents[FileDoc]).version = 2
    /\ Val(last.applied).edits = <<TheEdit>>
    /\ pendingEdits = 1

\* C15: in both handlers, when the host fails an applyEdit, the failure is
\* caught (nothing is left unhandled), no further applyEdit is submitted for
\* it, and the handler's fields and what is published stay as they are.
C15_EditFailureCaught ==
    [][last'.kind = "applyEditFailed"
       => /\ ~last'.threw
          /\ pendingEdits' = pendingEdits - 1
          /\ UNCHANGED <<handlerVars, libVars, published, documents>>
      ]_vars

C19_AsStated ==
    [][( \/ last'.kind = "didChangeConfiguration"
         \/ /\ last'.kind = "didChangeWatchedFiles"
            /\ \E c \in Val(last'.input) : \E key \in DOMAIN engineCache :
                  \E i \in DOMAIN Split(key, "|") :
                      EndsWith(UriParse(c).path, Split(key, "|")[i]) )
       => IF \E i \in DOMAIN Val(configPaths') : ~ExistsSync(files, Val(configPaths')[i])
          THEN /\ state' = "invalid"
               /\ Len(last'.warnings) = 1
               /\ ~ExistsSync(files, last'.warnings[1])
               /\ \E i \in DOMAIN Val(configPaths') : Val(configPaths')[i] = last'.warnings[1]
          ELSE state' = "valid"
      ]_vars

\* C19 (amended): every run of checkConfig that finds a configured path
\* missing sets the state to invalid and, if the state was not invalid
\* already, shows one warning naming the first missing path; a run that
\* starts from the invalid state shows no warning. Every run that finds all
\* configured paths present sets the state to valid and shows no warning.
C19_CheckConfig ==
    [][( \/ last'.kind = "didChangeConfiguration"
         \/ /\ last'.kind = "didChangeWatchedFiles"
            /\ \E c \in Val(last'.input) : \E key \in DOMAIN engineCache :
                  \E i \in DOMAIN Split(key, "|") :
                      EndsWith(UriParse(c).path, Split(key, "|")[i]) )
       => LET paths == Val(configPaths')
              missing == {i \in DOMAIN paths : ~ExistsSync(files, paths[i])}
          IN IF missing # {}
             THEN /\ state' = "invalid"
                  /\ \E i \in missing :
                        /\ \A j \in missing : i <= j
                        /\ missingAtCheck' = Some(paths[i])
                        /\ last'.warnings = IF state # "invalid" THEN <<paths[i]>> ELSE <<>>
             ELSE /\ state' = "valid"
                  /\ missingAtCheck' = None
                  /\ last'.warnings = <<>>
      ]_vars

\* A configuration change that names a missing path while the state is
\* invalid already: the state stays invalid and no warning is shown.
C19_Witness ==
    /\ last.kind = "didChangeConfiguration"
    /\ last.input = Some([enable |-> Some(TRUE), configFiles |-> Some(<<GoneYml>>)])
    /\ state = "invalid" /\ missingAtCheck = Some(GoneYml)
    /\ last.warnings = <<>>

\* C20: between two invalidations of the caches (a configuration change, or
\* a watched-files notification matching a key of engineCache), an engine
\* stored under a key is neither constructed again nor replaced, and no event
\* constructs the engine of a key twice; every validation computed in an event
\* was computed by the engine stored under the key of its rule paths, so the
\* documents that resolve to the same paths share one engine.
C20_EngineBuiltOnce ==
    [][/\ \A i, j \in DOMAIN last'.built : i # j => last'.built[i] # last'.built[j]
       /\ ~( \/ last'.kind = "didChangeConfiguration"
             \/ /\ last'.kind = "didChangeWatchedFiles"
                /\ \E c \in Val(last'.input) : \E key \in DOMAIN engineCache :
                      \E i \in DOMAIN Split(key, "|") :
                          EndsWith(UriParse(c).path, Split(key, "|")[i]) )
          => \A key \in DOMAIN engineCache :
                IsSome(engineCache[key]) =>
                    /\ \A k \in DOMAIN last'.built : last'.built[k] # key
                    /\ key \in DOMAIN engineCache'
                    /\ engineCache'[key] = engineCache[key]
       /\ \A u \in Uris :
             last'.invoked[u] >= 1 =>
                 /\ last'.invoked[u] = 1
                 /\ u \in DOMAIN validationCache'
                 /\ EngineKey(validationCache'[u].engine) \in DOMAIN engineCache'
                 /\ engineCache'[EngineKey(validationCache'[u].engine)] =
                        Some(fromYAMLFilePaths(validationCache'[u].engine))
                 /\ Some(validationCache'[u].engine) = RulePaths(Self', files', u)
      ]_vars

\* A second document opened under the configured paths of a first: its
\* validation ran on the engine built for the first, and none was built.
C20_Witness ==
    /\ last.kind = "didOpen" /\ last.uri = UntitledDoc
    /\ last.built = <<>> /\ last.invoked[UntitledDoc] = 1
    /\ configPaths = Some(<<RulesYml, ExtraYml>>)
    /\ DOMAIN engineCache = {EngineKey(<<RulesYml, ExtraYml>>)}
    /\ DOMAIN validationCache = Uris
    /\ validationCache[FileDoc].engine = validationCache[UntitledDoc].engine

\* C21: when no rule path is configured and none is found for a document
\* (its uri is not a file uri, or no prh.yml is found from its directory), a
\* makeChangeSet that gets past the cache test returns null, shows neither a
\* warning nor an error, constructs and invokes no engine and leaves no
\* entry for the document; the push of an opened or changed document is the
\* empty list and a code action returns no command.
C21_NoRuleFile ==
    [][\A u \in Uris :
          ( /\ last'.kind \in {"didOpen", "didChange", "codeAction"} /\ last'.uri = u
            /\ IsSome(documents'[u])
            /\ enable = Some(TRUE) /\ state = "valid"
            /\ configPaths = Some(<<>>)
            /\ ~CacheHit(Self, u, Val(documents'[u]))
            /\ \/ UriParse(u).scheme # "file"
               \/ ~IsSome(GetRuleFilePath(files, UriParse(u).path)) )
          => /\ ~last'.threw
             /\ last'.warnings = <<>> /\ last'.errors = <<>>
             /\ last'.built = <<>> /\ last'.invoked = NoRuns
             /\ last'.nulls = {u}
             /\ u \notin DOMAIN validationCache'
             /\ engineCache' = engineCache
             /\ last'.kind \in {"didOpen", "didChange"} =>
                   /\ last'.pushes[u] = << <<>> >>
                   /\ published'[u] = Some(<<>>)
             /\ last'.kind = "codeAction" =>
                   /\ last'.result = None /\ last'.commands = <<>>
                   /\ last'.pushes = NoPushes
      ]_vars

\* A changed file document whose prh.yml is gone, with nothing configured:
\* the entry of its earlier version is gone, nothing was shown, and the list
\* published is empty; the document without a file uri is open beside it.
C21_Witness ==
    /\ last.kind = "didChange" /\ last.uri = FileDoc
    /\ enable = Some(TRUE) /\ state = "valid" /\ configPaths = Some(<<>>)
    /\ files[PrhYml] = "missing"
    /\ OpenDocs = Uris
    /\ last.nulls = {FileDoc} /\ last.errors = <<>> /\ last.warnings = <<>>
    /\ validationCache = EmptyMap
    /\ DOMAIN engineCache = {EngineKey(<<PrhYml>>)}
    /\ published[FileDoc] = Some(<<>>) /\ published[UntitledDoc] = Some(<<>>)

\* C22: an applyEdit is not waited for. While an edit awaits the host's
\* answer the handler takes further events (a code action, a command, a
\* change of the open document are enabled as they are with none pending,
\* and no event handled meanwhile takes the pending answer away), and the
\* answer, applied or failed, can come at any such point. The answer changes
\* none of enable, configPaths, state, engineCache and validationCache,
\* publishes nothing, shows nothing and submits nothing: it is logged.
C22_FireAndForget ==
    [][/\ last'.kind \in {"applyEditApplied", "applyEditFailed"}
          => /\ ~last'.threw
             /\ UNCHANGED <<enable, configPaths, state, engineCache, validationCache>>
             /\ UNCHANGED <<published, documents>>
             /\ last'.pushes = NoPushes /\ last'.warnings = <<>> /\ last'.errors = <<>>
             /\ last'.applied = None
             /\ pendingEdits' = pendingEdits - 1
       /\ last'.kind \in {"didOpen", "didChange", "didChangeConfiguration", "codeAction",
                          "replace", "applyAllQuickFixes"}
          => pendingEdits' >= pendingEdits
      ]_vars
    /\ [](initialized /\ Waiting /\ pendingEdits > 0
            => /\ ENABLED ApplyEditAnswer(TRUE)
               /\ ENABLED ApplyEditAnswer(FALSE)
               /\ ENABLED onCodeAction(FileDoc, EmptyRange, "Error", TRUE)
               /\ ENABLED ExecuteReplace(None)
               /\ (IsSome(documents[FileDoc]) /\ Val(documents[FileDoc]).version < MaxVersion)
                     => ENABLED DidChange(FileDoc, <<"b">>, "Error"))

\* A configuration change handled while an edit submitted before it still
\* awaits the host's answer: the configuration is invalid now, and the
\* answer is yet to come.
C22_Witness ==
    /\ last.kind = "didChangeConfiguration" /\ ~last.threw
    /\ pendingEdits = 1
    /\ state = "invalid" /\ Len(last.warnings) = 1
    /\ IsSome(documents[FileDoc])

\* C23: in every reachable state whose configuration is invalid, engineCache
\* and validationCache are both empty: the checkConfig that set the state
\* emptied them, and no makeChangeSet stores anything while it is invalid.
C23_InvalidCachesEmpty ==
    state = "invalid" => engineCache = EmptyMap /\ validationCache = EmptyMap

\* A rule file in use was removed and a watched-files notification named it:
\* the configuration became invalid with both documents open, and the
\* engine and the results held before are gone.
C23_Witness ==
    /\ state = "invalid" /\ enable = Some(TRUE)
    /\ last.kind = "didChangeWatchedFiles" /\ Len(last.warnings) = 1
    /\ OpenDocs = Uris
    /\ engineCache = EmptyMap /\ validationCache = EmptyMap

\* C24: the warning for a missing rule file is shown exactly by the events
\* that take the state from valid to invalid, once, naming the path found
\* missing. An event handled while the state is invalid shows no warning,
\* whichever path is missing now; once the state has returned to valid, the
\* next event that finds a path missing warns again.
C24_WarningOnTransition ==
    [][last' # Idle
       => /\ Len(last'.warnings) <= 1
          /\ Len(last'.warnings) = 1 <=> (state = "valid" /\ state' = "invalid")
          /\ Len(last'.warnings) = 1 => Some(last'.warnings[1]) = missingAtCheck'
          /\ state = "invalid" => last'.warnings = <<>>
      ]_vars

\* A configuration change naming two rule files, the first of them missing,
\* taken while valid: one warning, for the first, and the state is invalid.
C24_Witness ==
    /\ last.kind = "didChangeConfiguration"
    /\ last.input = Some([enable |-> Some(TRUE), configFiles |-> Some(<<RulesYml, ExtraYml>>)])
    /\ last.warnings = <<RulesYml>>
    /\ state = "invalid" /\ missingAtCheck = Some(RulesYml)
    /\ OpenDocs # {}

\* C25: until the first configuration change arrives, corrections are off:
\* makeChangeSet answers null at its first test, so no event constructs or
\* invokes an engine and both caches stay empty; a document opened or changed
\* gets one empty list of diagnostics, a code action request gets the empty
\* list, applyAllQuickFixes submits nothing, and nothing is shown.
C25_BeforeConfiguration ==
    [][(enable = None /\ last' # Idle /\ last'.kind # "didChangeConfiguration")
       => /\ enable' = None /\ Unavailable(Self')
          /\ ~last'.threw
          /\ last'.built = <<>> /\ last'.invoked = NoRuns /\ engineRuns' = NoRuns
          /\ engineCache' = EmptyMap /\ validationCache' = EmptyMap
          /\ last'.warnings = <<>> /\ last'.errors = <<>> /\ last'.applied = None
          /\ last'.kind \in {"didOpen", "didChange"}
                => /\ last'.pushes = [NoPushes EXCEPT ![last'.uri] = << <<>> >>]
                   /\ published'[last'.uri] = Some(<<>>)
          /\ last'.kind \notin {"didOpen", "didChange"} => last'.pushes = NoPushes
          /\ last'.kind = "codeAction" => last'.commands = <<>> /\ last'.result = None
      ]_vars

\* A code action request before any configuration has arrived, for an open
\* document whose prh.yml is on disk: no command is offered.
C25_Witness ==
    /\ enable = None /\ configPaths = None
    /\ last.kind = "codeAction" /\ last.uri = FileDoc
    /\ IsSome(documents[FileDoc])
    /\ files[PrhYml] = "ok"
    /\ last.commands = <<>>
    /\ published[FileDoc] = Some(<<>>)

\* C26: executeReplace tests the command's version against the document's and
\* nothing else. A replace for an open document submits its edit exactly when
\* the versions are equal, and so it does while no configuration has arrived,
\* while corrections are disabled and while the configuration is invalid; it
\* consults neither enable nor state, and constructs and invokes no engine.
C26_ReplaceWhileUnavailable ==
    [][(last'.kind = "replace" /\ IsSome(last'.input) /\ IsSome(documents[Val(last'.input).uri]))
       => /\ IsSome(last'.applied)
             <=> Val(last'.input).version = Val(documents[Val(last'.input).uri]).version
          /\ last'.mismatch <=> ~IsSome(last'.applied)
          /\ (Unavailable(Self)
              /\ Val(last'.input).version = Val(documents[Val(last'.input).uri]).version)
             => /\ Val(last'.applied) = [uri |-> Val(last'.input).uri,
                                         version |-> Val(last'.input).version,
                                         edits |-> <<Val(last'.input).textEdit>>]
                /\ Unavailable(Self')
          /\ last'.built = <<>> /\ last'.invoked = NoRuns
          /\ last'.warnings = <<>> /\ last'.errors = <<>>
      ]_vars

\* A replace command at the document's version, executed while the
\* configuration is invalid: its edit is submitted.
C26_Witness ==
    /\ last.kind = "replace" /\ ~last.threw
    /\ state = "invalid" /\ enable = Some(TRUE)
    /\ IsSome(last.applied) /\ Val(last.applied).uri = FileDoc
    /\ Val(last.applied).version = Val(documents[FileDoc]).version
    /\ published[FileDoc] = Some(<<>>)
    /\ pendingEdits = 1

\* C27: a watched-files notification none of whose paths ends with a rule
\* path of a key of engineCache is logged and does nothing else: enable,
\* configPaths, state, engineCache and validationCache keep their values,
\* nothing is published, no warning or error is shown, and no engine is
\* constructed or invoked.
C27_UnmatchedWatchedFiles ==
    [][( /\ last'.kind = "didChangeWatchedFiles"
         /\ \A c \in Val(last'.input) : \A key \in DOMAIN engineCache :
               \A i \in DOMAIN Split(key, "|") :
                   ~EndsWith(UriParse(c).path, Split(key, "|")[i]) )
       => /\ UNCHANGED <<enable, configPaths, state, engineCache, validationCache>>
          /\ UNCHANGED <<published, missingAtCheck, engineRuns>>
          /\ ~last'.threw
          /\ last'.pushes = NoPushes
          /\ last'.warnings = <<>> /\ last'.errors = <<>>
          /\ last'.built = <<>> /\ last'.invoked = NoRuns
      ]_vars

\* A notification for a file that is no rule file, while an engine is stored
\* and both documents have results and corrections on display: all is kept.
C27_Witness ==
    /\ last.kind = "didChangeWatchedFiles" /\ last.input = Some({"file:///w/n"})
    /\ last.pushes = NoPushes
    /\ engineCache # EmptyMap
    /\ DOMAIN validationCache = Uris
    /\ \A u \in Uris : IsSome(published[u]) /\ Len(Val(published[u])) > 0

\* C28: in the single-path handler a watched-files notification that does not
\* name the configured rule file, resolved against the workspace root, reloads
\* nothing: the engine and validationCache keep their values, no engine is
\* constructed and nothing is published.
C28_ReloadOnlyOnRuleFile ==
    [][( /\ last'.kind = "didChangeWatchedFiles"
         /\ IsSome(workspaceRoot) /\ IsSome(libConfigPath)
         /\ \A c \in Val(last'.input) :
               c # UriToString(Resolve(UriParse(Val(workspaceRoot)).path, Val(libConfigPath))) )
       => /\ UNCHANGED <<libEngine, libValidationCache, published>>
          /\ last'.built = <<>>
          /\ last'.pushes = NoPushes
      ]_vars

====
